---- MODULE Spec2Model ----
(***************************************************************************)
(* Dataset construction pipeline of DeepSaber (src/src/process/api.py):    *)
(* song discovery, cache recalculation, per-song extraction (worker pool   *)
(* or sequential), assembly, snippet windowing, normalization and the      *)
(* persisted split files.                                                  *)
(*                                                                         *)
(* List positions are 0-based as in the Python source; At(s, i) reads      *)
(* position i of a TLA+ sequence.                                          *)
(***************************************************************************)
EXTENDS Integers, Sequences, FiniteSets, TLC

\* ------------------------------------------------------------------ bounds
MaxSongs == 3

\* --------------------------------------------------------------- constants
PoolSize == 10
snippet_window_length == 50
snippet_window_skip == 25

VARIABLES
    song_folders,        \* list of song folders, each standing for its content
    data_split,          \* config.training.data_split, in hundredths
    use_cache,           \* config.audio_processing.use_cache
    use_multiprocessing, \* config.use_multiprocessing
    stats_file,          \* content of config.dataset.normalization_stats_path
    pkl,                 \* content of <storage_folder>/<phase>_beatmaps.pkl
    phase,               \* position of the loop of generate_datasets (1..3, 4 = over)
    pc,                  \* control point of generate_datasets / songs2dataset
    folders,             \* argument song_folders of the running songs2dataset call
    pos,                 \* loop position inside remove_ogg_cache / create_ogg_caches
    cache,               \* per song: state of its MFCC cache entry
    recalculated,        \* songs whose cache entry the running call rebuilt
    task,                \* per song: state of its process_song_folder task
    songs,               \* list `songs` of songs2dataset (results in input order)
    df,                  \* value returned by songs2dataset, then the table being built
    exception,           \* exception that escaped generate_datasets / load_datasets
    loaded,              \* value returned by load_datasets
    assigned,            \* per phase: indices passed to songs2dataset
    fitted,              \* phases for which save_normalization_stats was invoked
    normalized,          \* phases for which normalize_columns transformed the table
    skipped,             \* phases skipped with the warning "No songs."
    warned,              \* songs2dataset calls that logged "collected 0 songs"
    stats_writes,        \* number of writes of the statistics file in this run
    started_after_stats, \* songs whose extraction started after the write
    io_error,            \* per split file: the I/O error reading it raises, or "none"
    action_word_model,   \* file at config.dataset.action_word_model_path
    post_warned,         \* phases in which the missing word model was logged
    \* ---- song discovery (create_song_list)
    tree,                \* directory tree: per directory its parent and file names
    walk,                \* directories os.walk has still to yield, in order
    found,               \* list `songs` of create_song_list
    walk_pc,
    \* ---- snippet windowing (groupby + generate_snippets)
    frame,               \* concatenated table: sequence of (name, difficulty) keys
    window,              \* snippet_window_length used on frame
    skip,                \* snippet_window_skip used on frame
    snippets,            \* produced snippets: records [key, start, rows]
    snip_pc

pipeVars == <<song_folders, data_split, use_cache, use_multiprocessing, stats_file,
              pkl, phase, pc, folders, pos, cache, recalculated, task, songs, df,
              exception, loaded, assigned, fitted, normalized, skipped, warned,
              stats_writes, started_after_stats, io_error, action_word_model,
              post_warned>>
walkVars == <<tree, walk, found, walk_pc>>
snipVars == <<frame, window, skip, snippets, snip_pc>>
vars == <<pipeVars, walkVars, snipVars>>

\* ------------------------------------------------------------------ helpers
At(s, i) == s[i + 1]

Min(a, b) == IF a < b THEN a ELSE b
Max(a, b) == IF a > b THEN a ELSE b

RECURSIVE SeqSum(_)
SeqSum(s) == IF s = <<>> THEN 0 ELSE Head(s) + SeqSum(Tail(s))

RECURSIVE Flatten(_)
Flatten(ss) == IF ss = <<>> THEN <<>> ELSE Head(ss) \o Flatten(Tail(ss))

Range(s) == {s[k] : k \in 1..Len(s)}

\* Python's list[a:b] for a, b >= 0: the positions it selects, in order.
SliceIndices(n, a, b) ==
    LET lo == Min(a, n)
        hi == Min(b, n)
    IN  [k \in 1..Max(hi - lo, 0) |-> lo + k - 1]

\* int(total * fraction) with the fraction given in hundredths; float
\* multiplication and truncation agree with the exact floor for every
\* total <= 11 and every fraction k/100.
IntOfProduct(total, hundredths) == (total * hundredths) \div 100

Phases == <<"train", "val", "test">>

\* mutant of PhaseSplit: every split starts at the first boundary
PhaseSplitFromFirst(p) == <<data_split[1], data_split[p + 1]>>

\* zip(['train','val','test'], zip(data_split, data_split[1:]))
PhaseSplit(p) == <<data_split[p], data_split[p + 1]>>

\* ------------------------------------------------- per-song extraction
\* What a song folder holds: a corrupt audio file, or a beatmap of one
\* (name, difficulty) group with 50 or 75 rows, so that every extracted
\* table holds at least one full window; shorter groups are the subject of
\* SpecSnip.
SongKinds == {"corrupt", "short", "long"}

RowCount(kind) == IF kind = "short" THEN 50 ELSE 75

\* value of the normalized column in row r of the song's table
RowValue(kind, r) ==
    IF kind = "long" /\ r % 30 = 7 THEN [finite |-> FALSE, v |-> 0]
    ELSE IF kind = "long" THEN [finite |-> TRUE, v |-> 1 + (r % 3)]
    ELSE [finite |-> TRUE, v |-> r % 2]

\* process_song_folder(folder, config, progress): the song's table, or None
\* when decoding or parsing fails.
process_song_folder(i) ==
    IF At(song_folders, i) = "corrupt"
    THEN [none |-> TRUE, name |-> i, kind |-> "corrupt", len |-> 0]
    ELSE [none |-> FALSE, name |-> i, kind |-> At(song_folders, i),
          len |-> RowCount(At(song_folders, i))]

\* ------------------------------------------------------ snippet windows
RECURSIVE StartsFrom(_, _, _, _)
StartsFrom(s, L, W, S) ==
    IF s + W <= L THEN <<s>> \o StartsFrom(s + S, L, W, S) ELSE <<>>

\* generate_snippets on one group of L rows: the window starts, in order
generate_snippets(L, W, S) == StartsFrom(0, L, W, S)

\* df.groupby(['name', 'difficulty']).apply(generate_snippets) on the
\* concatenation of the extracted tables (one group per song)
SnippetsOf(tables) ==
    Flatten([k \in 1..Len(tables) |->
        LET starts == generate_snippets(tables[k].len, snippet_window_length,
                                        snippet_window_skip)
        IN  [j \in 1..Len(starts) |->
                [name |-> tables[k].name, kind |-> tables[k].kind, start |-> starts[j]]]])

\* mutant of FilterFailed: the failed songs are kept
FilterNothing(results) == results

\* songs = [x for x in songs if x is not None]
FilterFailed(results) == SelectSeq(results, LAMBDA x : ~x.none)

\* --------------------------------------------------------- normalization
infinite2zero(x) == IF ~x.finite THEN 0 ELSE x.v

RECURSIVE WindowSum(_, _, _, _)
WindowSum(kind, r, left, square) ==
    IF left = 0 THEN 0
    ELSE LET v == infinite2zero(RowValue(kind, r))
         IN  (IF square THEN v * v ELSE v) + WindowSum(kind, r + 1, left - 1, square)

\* the sums over each snippet the extracted tables can yield
SnippetSums ==
    [kind \in {"short", "long"}, start \in {0, snippet_window_skip}, square \in BOOLEAN |->
        IF start + snippet_window_length <= RowCount(kind)
        THEN WindowSum(kind, start, snippet_window_length, square) ELSE 0]

\* mean and std of save_normalization_stats, kept as the exact sums they
\* are computed from: mean = sum / n, std^2 = sumsq / n - mean^2
FitStats(rows) ==
    [origin |-> "run",
     n      |-> Len(rows) * snippet_window_length,
     sum    |-> SeqSum([k \in 1..Len(rows) |-> SnippetSums[rows[k].kind, rows[k].start, FALSE]]),
     sumsq  |-> SeqSum([k \in 1..Len(rows) |-> SnippetSums[rows[k].kind, rows[k].start, TRUE]])]

\* a statistics file left in the storage folder by an earlier run
StaleStats == [origin |-> "earlier", n |-> 1, sum |-> 0, sumsq |-> 0]

\* no statistics file in the storage folder
NoStats == [origin |-> "absent", n |-> 0, sum |-> 0, sumsq |-> 0]

\* the value None of songs2dataset
NoneTable == [none |-> TRUE, rows |-> <<>>, coerced |-> FALSE, normalize_count |-> 0,
              stats |-> NoStats, word_vec |-> <<>>, word_id |-> <<>>, columns |-> {}]

\* ------------------------------------------------------ df_post_processing
\* the action words in the 'word' column of a song's table
SongWords(kind) == IF kind = "short" THEN {"L0", "R3"} ELSE {"L0", "X9"}

\* the words of the concatenated table
TableWords(tables) == UNION {SongWords(tables[k].kind) : k \in 1..Len(tables)}

\* no file at action_word_model_path
NoModel == [exists |-> FALSE, vocab |-> <<>>]

\* the word model file: absent, or FastText keyed vectors with a vocabulary
ActionWordModels == {NoModel, [exists |-> TRUE, vocab |-> <<"L0", "R3">>]}

\* create_word_mapping(action_model): the vocabulary words numbered from 2
\* (0 is MASK, 1 is UNK)
create_word_mapping(model) ==
    [w \in Range(model.vocab) |-> (CHOOSE k \in 1..Len(model.vocab) : model.vocab[k] = w) + 1]

\* action_model[word]: keyed vectors that give a vector for every word
word_vec_of(model, word) == [zero |-> FALSE, of |-> word]

\* mutant of word_id_of: a word outside the mapping gets the MASK id
word_id_of_default_mask(mapping, word) ==
    IF word \in DOMAIN mapping THEN mapping[word] ELSE 0

\* word_id_dict.get(word, 1)
word_id_of(mapping, word) ==
    IF word \in DOMAIN mapping THEN mapping[word] ELSE 1

\* the columns add_previous_prediction adds to every (name, difficulty) group
LagColumns == {"prev_word_vec", "prev_word_id"}

\* df_post_processing(df, config) on a table with the given words: the
\* columns word_vec and word_id per word, the lag columns, and whether the
\* warning was logged
df_post_processing(words, model) ==
    IF model.exists
    THEN [word_vec |-> [w \in words |-> word_vec_of(model, w)],
          word_id  |-> [w \in words |-> word_id_of(create_word_mapping(model), w)],
          columns  |-> {"word_vec", "word_id"} \cup LagColumns,
          warned   |-> FALSE]
    ELSE [word_vec |-> [w \in words |-> [zero |-> TRUE, of |-> ""]],
          word_id  |-> [w \in words |-> 0],
          columns  |-> {"word_vec", "word_id"} \cup LagColumns,
          warned   |-> TRUE]

\* no file at <storage_folder>/<phase>_beatmaps.pkl
NoFile == [exists |-> FALSE, table |-> NoneTable]

\* ------------------------------------------------------------------ inputs
Splits == {<<0, 80, 90, 99>>, <<0, 34, 67, 100>>, <<0, 0, 50, 100>>, <<0, 80, 50, 90>>,
           <<0, 100, 100, 100>>}

SongLists == UNION {[1..n -> SongKinds] : n \in 0..MaxSongs}

Indices == 0..(Len(song_folders) - 1)

WalkIdle ==
    /\ tree = <<>>
    /\ walk = <<>>
    /\ found = <<>>
    /\ walk_pc = "idle"

SnipIdle ==
    /\ frame = <<>>
    /\ window = 1
    /\ skip = 1
    /\ snippets = {}
    /\ snip_pc = "idle"

Init ==
    /\ song_folders \in SongLists
    /\ data_split \in Splits
    /\ use_cache \in BOOLEAN
    /\ use_multiprocessing \in BOOLEAN
    /\ stats_file \in {NoStats, StaleStats}
    /\ pkl = [p \in 1..3 |-> NoFile]
    /\ phase = 1
    /\ pc = "loop"
    /\ folders = <<>>
    /\ pos = 0
    /\ cache = [i \in Indices |-> "cached"]
    /\ recalculated = {}
    /\ task = [i \in Indices |-> "none"]
    /\ songs = <<>>
    /\ df = NoneTable
    /\ exception = "none"
    /\ loaded = <<>>
    /\ assigned = [p \in 1..3 |-> {}]
    /\ fitted = {}
    /\ normalized = {}
    /\ skipped = {}
    /\ warned = {}
    /\ stats_writes = 0
    /\ started_after_stats = {}
    /\ io_error = [p \in 1..3 |-> "none"]
    /\ action_word_model \in ActionWordModels
    /\ post_warned = {}
    /\ WalkIdle
    /\ SnipIdle

\* ------------------------------------------------------- generate_datasets
\* loop head: the split bounds and the call of songs2dataset on the slice
GenerateDatasetsSlice ==
    /\ pc = "loop"
    /\ phase <= 3
    /\ LET total      == Len(song_folders)
           split_from == IntOfProduct(total, PhaseSplit(phase)[1])
           split_to   == IntOfProduct(total, PhaseSplit(phase)[2])
       IN  /\ folders' = SliceIndices(total, split_from, split_to)
           /\ assigned' = [assigned EXCEPT ![phase] = Range(SliceIndices(total, split_from, split_to))]
    /\ pc' = "recalculate"
    /\ recalculated' = {}
    /\ task' = [i \in Indices |-> "none"]
    /\ songs' = <<>>
    /\ df' = NoneTable
    /\ UNCHANGED <<song_folders, data_split, use_cache, use_multiprocessing, stats_file,
                   pkl, phase, pos, cache, exception, loaded, fitted, normalized,
                   skipped, warned, stats_writes, started_after_stats>>
    /\ UNCHANGED <<walkVars, snipVars, io_error, action_word_model, post_warned>>

\* mutant of SkipsRecalculation: the cache is never recalculated
SkipsRecalculationAlways == TRUE

\* if config.audio_processing.use_cache: return
SkipsRecalculation == use_cache

\* recalculate_mfcc_df_cache: returns at once when the cache is in use
RecalculateMfccDfCache ==
    /\ pc = "recalculate"
    /\ pc' = IF SkipsRecalculation THEN "inputs" ELSE "remove"
    /\ pos' = 0
    /\ UNCHANGED <<song_folders, data_split, use_cache, use_multiprocessing, stats_file,
                   pkl, phase, folders, cache, recalculated, task, songs, df, exception,
                   loaded, assigned, fitted, normalized, skipped, warned, stats_writes,
                   started_after_stats>>
    /\ UNCHANGED <<walkVars, snipVars, io_error, action_word_model, post_warned>>

\* remove_ogg_cache(ogg_paths): one cache entry per step, then on to create
RemoveOggCache ==
    /\ pc = "remove"
    /\ IF pos < Len(folders)
       THEN /\ cache' = [cache EXCEPT ![At(folders, pos)] = "removed"]
            /\ pos' = pos + 1
            /\ pc' = pc
       ELSE /\ cache' = cache
            /\ pos' = 0
            /\ pc' = "create"
    /\ UNCHANGED <<song_folders, data_split, use_cache, use_multiprocessing, stats_file,
                   pkl, phase, folders, recalculated, task, songs, df, exception,
                   loaded, assigned, fitted, normalized, skipped, warned, stats_writes,
                   started_after_stats>>
    /\ UNCHANGED <<walkVars, snipVars, io_error, action_word_model, post_warned>>

\* create_ogg_caches(ogg_paths, config): one cache entry per step
CreateOggCaches ==
    /\ pc = "create"
    /\ IF pos < Len(folders)
       THEN /\ cache' = [cache EXCEPT ![At(folders, pos)] = "rebuilt"]
            /\ recalculated' = recalculated \cup {At(folders, pos)}
            /\ pos' = pos + 1
            /\ pc' = pc
       ELSE /\ cache' = cache
            /\ recalculated' = recalculated
            /\ pos' = 0
            /\ pc' = "inputs"
    /\ UNCHANGED <<song_folders, data_split, use_cache, use_multiprocessing, stats_file,
                   pkl, phase, folders, task, songs, df, exception,
                   loaded, assigned, fitted, normalized, skipped, warned, stats_writes,
                   started_after_stats>>
    /\ UNCHANGED <<walkVars, snipVars, io_error, action_word_model, post_warned>>

\* inputs = ((s, config, (i, n)) for i, s in enumerate(song_folders)) and the
\* choice of the dispatcher mode
Dispatch ==
    /\ pc = "inputs"
    /\ task' = [i \in Indices |-> IF i \in Range(folders) THEN "pending" ELSE "none"]
    /\ pc' = IF use_multiprocessing THEN "starmap" ELSE "sequential"
    /\ UNCHANGED <<song_folders, data_split, use_cache, use_multiprocessing, stats_file,
                   pkl, phase, folders, pos, cache, recalculated, songs, df, exception,
                   loaded, assigned, fitted, normalized, skipped, warned, stats_writes,
                   started_after_stats>>
    /\ UNCHANGED <<walkVars, snipVars, io_error, action_word_model, post_warned>>

Running == {i \in Indices : task[i] = "running"}

StartTask(i) ==
    /\ task' = [task EXCEPT ![i] = "running"]
    /\ started_after_stats' =
           IF stats_writes > 0 THEN started_after_stats \cup {i} ELSE started_after_stats
    /\ UNCHANGED <<song_folders, data_split, use_cache, use_multiprocessing, stats_file,
                   pkl, phase, pc, folders, pos, cache, recalculated, songs, df, exception,
                   loaded, assigned, fitted, normalized, skipped, warned, stats_writes>>
    /\ UNCHANGED <<walkVars, snipVars, io_error, action_word_model, post_warned>>

\* pool.starmap: a free worker of the pool takes any pending task
PoolStart(i) ==
    /\ pc = "starmap"
    /\ task[i] = "pending"
    /\ Cardinality(Running) < PoolSize
    /\ StartTask(i)

\* the list comprehension: the next input, once the previous call returned
SequentialStart(i) ==
    /\ pc = "sequential"
    /\ task[i] = "pending"
    /\ Running = {}
    /\ \A k \in 1..Len(folders) : folders[k] < i => task[folders[k]] = "done"
    /\ StartTask(i)

\* process_song_folder returns
ProcessSongFolderReturn(i) ==
    /\ pc \in {"starmap", "sequential"}
    /\ task[i] = "running"
    /\ task' = [task EXCEPT ![i] = "done"]
    /\ UNCHANGED <<song_folders, data_split, use_cache, use_multiprocessing, stats_file,
                   pkl, phase, pc, folders, pos, cache, recalculated, songs, df, exception,
                   loaded, assigned, fitted, normalized, skipped, warned, stats_writes,
                   started_after_stats>>
    /\ UNCHANGED <<walkVars, snipVars, io_error, action_word_model, post_warned>>

\* starmap / the comprehension returns the results in input order; the pool
\* is closed and joined
CollectResults ==
    /\ pc \in {"starmap", "sequential"}
    /\ \A k \in 1..Len(folders) : task[folders[k]] = "done"
    /\ songs' = [k \in 1..Len(folders) |-> process_song_folder(folders[k])]
    /\ pc' = "filter"
    /\ UNCHANGED <<song_folders, data_split, use_cache, use_multiprocessing, stats_file,
                   pkl, phase, folders, pos, cache, recalculated, task, df, exception,
                   loaded, assigned, fitted, normalized, skipped, warned, stats_writes,
                   started_after_stats>>
    /\ UNCHANGED <<walkVars, snipVars, io_error, action_word_model, post_warned>>

\* the rest of songs2dataset: filter, the empty check, concat,
\* df_post_processing, snippets
AssembleDataset ==
    /\ pc = "filter"
    /\ LET kept == FilterFailed(songs)
           post == df_post_processing(TableWords(kept), action_word_model)
       IN  /\ songs' = kept
           /\ IF Len(kept) = 0
              THEN /\ warned' = warned \cup {phase}
                   /\ df' = NoneTable
                   /\ post_warned' = post_warned
              ELSE /\ warned' = warned
                   /\ df' = [none |-> FALSE, rows |-> SnippetsOf(kept), coerced |-> FALSE,
                             normalize_count |-> 0, stats |-> NoStats,
                             word_vec |-> post.word_vec, word_id |-> post.word_id,
                             columns |-> post.columns]
                   /\ post_warned' = IF post.warned THEN post_warned \cup {phase}
                                     ELSE post_warned
    /\ pc' = "returned"
    /\ UNCHANGED <<song_folders, data_split, use_cache, use_multiprocessing, stats_file,
                   pkl, phase, folders, pos, cache, recalculated, task, exception,
                   loaded, assigned, fitted, normalized, skipped, stats_writes,
                   started_after_stats>>
    /\ UNCHANGED <<walkVars, snipVars, io_error, action_word_model>>

\* if df is None: warning, continue
SkipPhase ==
    /\ pc = "returned"
    /\ df.none
    /\ skipped' = skipped \cup {phase}
    /\ phase' = phase + 1
    /\ pc' = "loop"
    /\ UNCHANGED <<song_folders, data_split, use_cache, use_multiprocessing, stats_file,
                   pkl, folders, pos, cache, recalculated, task, songs, df, exception,
                   loaded, assigned, fitted, normalized, warned, stats_writes,
                   started_after_stats>>
    /\ UNCHANGED <<walkVars, snipVars, io_error, action_word_model, post_warned>>

\* mutant of FitsOn: the statistics are fitted on every split
FitsOnEveryPhase(p) == TRUE

\* mutant of FitsOn: the statistics are fitted on the last split
FitsOnLast(p) == Phases[p] = "test"

\* if phase == 'train': the statistics are fitted, otherwise not
FitsOn(p) == Phases[p] = "train"

CheckPhase ==
    /\ pc = "returned"
    /\ ~df.none
    /\ pc' = IF FitsOn(phase) THEN "save_stats" ELSE "normalize"
    /\ UNCHANGED <<song_folders, data_split, use_cache, use_multiprocessing, stats_file,
                   pkl, phase, folders, pos, cache, recalculated, task, songs, df,
                   exception, loaded, assigned, fitted, normalized, skipped, warned,
                   stats_writes, started_after_stats>>
    /\ UNCHANGED <<walkVars, snipVars, io_error, action_word_model, post_warned>>

\* save_normalization_stats(df, config): coerces the table's non-finite
\* values, computes mean and std, writes the statistics file
SaveNormalizationStats ==
    /\ pc = "save_stats"
    /\ df' = [df EXCEPT !.coerced = TRUE]
    /\ stats_file' = FitStats(df.rows)
    /\ fitted' = fitted \cup {phase}
    /\ stats_writes' = stats_writes + 1
    /\ pc' = "normalize"
    /\ UNCHANGED <<song_folders, data_split, use_cache, use_multiprocessing,
                   pkl, phase, folders, pos, cache, recalculated, task, songs,
                   exception, loaded, assigned, normalized, skipped, warned,
                   started_after_stats>>
    /\ UNCHANGED <<walkVars, snipVars, io_error, action_word_model, post_warned>>

\* mutant of normalize_columns: the transform is applied to its own result
normalize_columns_twice(table, stats) ==
    [table EXCEPT !.normalize_count = @ + 2, !.stats = stats]

\* the transform of normalize_columns: every column once, with the statistics read
normalize_columns(table, stats) ==
    [table EXCEPT !.normalize_count = @ + 1, !.stats = stats]

\* normalize_columns(df, config): reads the statistics file (FileNotFoundError
\* when there is none) and transforms the columns
NormalizeColumns ==
    /\ pc = "normalize"
    /\ IF stats_file = NoStats
       THEN /\ exception' = "FileNotFoundError"
            /\ pc' = "raised"
            /\ df' = df
            /\ normalized' = normalized
       ELSE /\ exception' = exception
            /\ pc' = "pickle"
            /\ df' = normalize_columns(df, stats_file)
            /\ normalized' = normalized \cup {phase}
    /\ UNCHANGED <<song_folders, data_split, use_cache, use_multiprocessing, stats_file,
                   pkl, phase, folders, pos, cache, recalculated, task, songs,
                   loaded, assigned, fitted, skipped, warned,
                   stats_writes, started_after_stats>>
    /\ UNCHANGED <<walkVars, snipVars, io_error, action_word_model, post_warned>>

\* df.to_pickle(result_path) and the next iteration
ToPickle ==
    /\ pc = "pickle"
    /\ pkl' = [pkl EXCEPT ![phase] = [exists |-> TRUE, table |-> df]]
    /\ phase' = phase + 1
    /\ pc' = "loop"
    /\ UNCHANGED <<song_folders, data_split, use_cache, use_multiprocessing, stats_file,
                   folders, pos, cache, recalculated, task, songs, df,
                   exception, loaded, assigned, fitted, normalized, skipped, warned,
                   stats_writes, started_after_stats>>
    /\ UNCHANGED <<walkVars, snipVars, io_error, action_word_model, post_warned>>

\* the loop is over: generate_datasets returns
GenerateDatasetsReturn ==
    /\ pc = "loop"
    /\ phase = 4
    /\ pc' = "generated"
    /\ UNCHANGED <<song_folders, data_split, use_cache, use_multiprocessing, stats_file,
                   pkl, phase, folders, pos, cache, recalculated, task, songs, df,
                   exception, loaded, assigned, fitted, normalized, skipped, warned,
                   stats_writes, started_after_stats>>
    /\ UNCHANGED <<walkVars, snipVars, io_error, action_word_model, post_warned>>

DatasetNotFound == "FileNotFoundError: Check if searching in correct folders."

\* the split files pd.read_pickle cannot read: missing, or raising an error
Unreadable(files, errors) == {p \in 1..3 : ~files[p].exists \/ errors[p] # "none"}

\* mutant of load_outcome: the except clause catches every exception
load_outcome_catch_all(files, errors) ==
    IF Unreadable(files, errors) = {}
    THEN [tables |-> [p \in 1..3 |-> files[p].table], exception |-> "none"]
    ELSE [tables |-> <<>>, exception |-> DatasetNotFound]

\* the body of load_datasets: the files are read in the order train, val,
\* test; the first one that cannot be read ends the call, a missing file
\* with the FileNotFoundError that carries the hint, any other error as it is
load_outcome(files, errors) ==
    IF Unreadable(files, errors) = {}
    THEN [tables |-> [p \in 1..3 |-> files[p].table], exception |-> "none"]
    ELSE LET first == CHOOSE p \in Unreadable(files, errors) :
                          \A q \in Unreadable(files, errors) : p <= q
         IN  [tables |-> <<>>,
              exception |-> IF ~files[first].exists THEN DatasetNotFound ELSE errors[first]]

\* load_datasets(config): reads the three files in order; a missing one
\* raises FileNotFoundError with the hint
LoadDatasets ==
    /\ pc = "generated"
    /\ LET out == load_outcome(pkl, io_error)
       IN  IF out.exception # "none"
           THEN /\ exception' = out.exception
                /\ loaded' = loaded
                /\ pc' = "raised"
           ELSE /\ exception' = exception
                /\ loaded' = out.tables
                /\ pc' = "loaded"
    /\ UNCHANGED <<song_folders, data_split, use_cache, use_multiprocessing, stats_file,
                   pkl, phase, folders, pos, cache, recalculated, task, songs, df,
                   assigned, fitted, normalized, skipped, warned,
                   stats_writes, started_after_stats>>
    /\ UNCHANGED <<walkVars, snipVars, io_error, action_word_model, post_warned>>

Next ==
    \/ GenerateDatasetsSlice
    \/ RecalculateMfccDfCache
    \/ RemoveOggCache
    \/ CreateOggCaches
    \/ Dispatch
    \/ \E i \in Indices : PoolStart(i)
    \/ \E i \in Indices : SequentialStart(i)
    \/ \E i \in Indices : ProcessSongFolderReturn(i)
    \/ CollectResults
    \/ AssembleDataset
    \/ SkipPhase
    \/ CheckPhase
    \/ SaveNormalizationStats
    \/ NormalizeColumns
    \/ ToPickle
    \/ GenerateDatasetsReturn
    \/ LoadDatasets

Spec == Init /\ [][Next]_vars

\* =========================================================== song discovery
MaxDirs == 3

FileSets == {{}, {"song.ogg"}, {"INFO.DAT", "song.ogg"}, {"Info.json"},
             {"info.dat", "cover.jpg"}, {"info.dat.bak", "song.ogg"}}

\* mutant of lower: the names are compared as they are
lower_identity(name) == name

\* str.lower() on the file names that occur
lower(name) ==
    CASE name = "INFO.DAT" -> "info.dat"
      [] name = "Info.json" -> "info.json"
      [] OTHER -> name

indicators == {"info.dat", "info.json"}

\* Directory trees: directory 0 is `path`; every other directory d has a
\* parent below d and is either a plain folder or a folder that is itself
\* named info.dat (then its parent holds no file of that name).
Trees ==
    UNION {
        {t \in [0..(n - 1) -> [parent : -1..(n - 2), files : FileSets, marker_named : BOOLEAN]] :
            /\ t[0].parent = -1
            /\ ~t[0].marker_named
            /\ \A d \in 1..(n - 1) :
                  /\ t[d].parent \in 0..(d - 1)
                  /\ t[d].marker_named =>
                        /\ "info.dat" \notin t[t[d].parent].files
                        /\ \A e \in 1..(n - 1) :
                              (e # d /\ t[e].parent = t[d].parent) => ~t[e].marker_named}
        : n \in 1..MaxDirs}

Children(t, d) == {e \in DOMAIN t : t[e].parent = d}

RECURSIVE AscendingSeq(_)
AscendingSeq(S) ==
    IF S = {} THEN <<>>
    ELSE LET m == CHOOSE x \in S : \A y \in S : x <= y
         IN  <<m>> \o AscendingSeq(S \ {m})

\* os.walk(path, topdown=False): every directory once, after its subdirectories
RECURSIVE BottomUp(_, _)
BottomUp(t, d) ==
    LET subs == AscendingSeq(Children(t, d))
    IN  Flatten([k \in 1..Len(subs) |-> BottomUp(t, subs[k])]) \o <<d>>

\* bool(indicators.intersection(set([name.lower() for name in files])))
HasIndicator(files) == (indicators \cap {lower(name) : name \in files}) # {}

PipeIdle ==
    /\ song_folders = <<>>
    /\ data_split = <<0, 80, 90, 99>>
    /\ use_cache = TRUE
    /\ use_multiprocessing = FALSE
    /\ stats_file = NoStats
    /\ pkl = [p \in 1..3 |-> NoFile]
    /\ phase = 1
    /\ pc = "idle"
    /\ folders = <<>>
    /\ pos = 0
    /\ cache = <<>>
    /\ recalculated = {}
    /\ task = <<>>
    /\ songs = <<>>
    /\ df = NoneTable
    /\ exception = "none"
    /\ loaded = <<>>
    /\ assigned = [p \in 1..3 |-> {}]
    /\ fitted = {}
    /\ normalized = {}
    /\ skipped = {}
    /\ warned = {}
    /\ stats_writes = 0
    /\ started_after_stats = {}
    /\ io_error = [p \in 1..3 |-> "none"]
    /\ action_word_model = NoModel
    /\ post_warned = {}

InitWalk ==
    /\ PipeIdle
    /\ SnipIdle
    /\ tree \in Trees
    /\ walk = <<>>
    /\ found = <<>>
    /\ walk_pc = "call"

\* create_song_list(path): songs = [] and the start of the walk
CreateSongListStart ==
    /\ walk_pc = "call"
    /\ walk' = BottomUp(tree, 0)
    /\ found' = <<>>
    /\ walk_pc' = "walking"
    /\ UNCHANGED <<tree, pipeVars, snipVars>>

\* the loop body for the next (root, _, files) of the walk
CreateSongListVisit ==
    /\ walk_pc = "walking"
    /\ walk # <<>>
    /\ found' = IF HasIndicator(tree[Head(walk)].files)
                THEN Append(found, Head(walk)) ELSE found
    /\ walk' = Tail(walk)
    /\ UNCHANGED <<tree, walk_pc, pipeVars, snipVars>>

\* return songs
CreateSongListReturn ==
    /\ walk_pc = "walking"
    /\ walk = <<>>
    /\ walk_pc' = "returned"
    /\ UNCHANGED <<tree, walk, found, pipeVars, snipVars>>

NextWalk ==
    \/ CreateSongListStart
    \/ CreateSongListVisit
    \/ CreateSongListReturn

SpecWalk == InitWalk /\ [][NextWalk]_vars

\* ======================================================== snippet windowing
MaxRows == 6
MaxWindow == 3
MaxSkip == 3

GroupKeys == {<<"a", "Easy">>, <<"a", "Hard">>, <<"b", "Easy">>}

Frames == UNION {[1..n -> GroupKeys] : n \in 0..MaxRows}

\* mutant of GroupKey: the table is grouped by name alone
GroupKeyNameOnly(row) == <<row[1], row[1]>>

\* the key of groupby(['name', 'difficulty']) for a row
GroupKey(row) == <<row[1], row[2]>>

\* the rows (positions of the table) of one group, in table order
GroupRows(fr, key) ==
    SelectSeq([k \in 1..Len(fr) |-> k - 1], LAMBDA r : GroupKey(At(fr, r)) = key)

\* df.groupby(['name', 'difficulty']).apply(lambda x: generate_snippets(x, config))
GroupbySnippets(fr, W, S) ==
    UNION {
        LET grp == GroupRows(fr, key)
        IN  {[key |-> key, start |-> st, rows |-> SubSeq(grp, st + 1, st + W)] :
                st \in Range(generate_snippets(Len(grp), W, S))}
        : key \in {GroupKey(fr[k]) : k \in 1..Len(fr)}}

InitSnip ==
    /\ PipeIdle
    /\ WalkIdle
    /\ frame \in Frames
    /\ window \in 1..MaxWindow
    /\ skip \in 1..MaxSkip
    /\ snippets = {}
    /\ snip_pc = "concatenated"

GenerateSnippets ==
    /\ snip_pc = "concatenated"
    /\ snippets' = GroupbySnippets(frame, window, skip)
    /\ snip_pc' = "snippets"
    /\ UNCHANGED <<frame, window, skip, pipeVars, walkVars>>

NextSnip == GenerateSnippets

SpecSnip == InitSnip /\ [][NextSnip]_vars

\* ================================================================== claims
SplitFrom(p) == IntOfProduct(Len(song_folders), data_split[p])
SplitTo(p) == IntOfProduct(Len(song_folders), data_split[p + 1])

\* generate_datasets has sliced the song list for phase p
Sliced(p) == pc # "idle" /\ (p < phase \/ (p = phase /\ pc # "loop"))

\* ---- C1
\* C1: no split is normalized in a run in which the statistics have not
\* been fitted on the train split before, also when train is skipped.
C1_FitBeforeNormalize == normalized # {} => 1 \in fitted

\* ---- C2
IndexRange(p) == {i \in Indices : SplitFrom(p) <= i /\ i < SplitTo(p)}

SplitsAsClaimed ==
    /\ \A p \in 1..3 : Sliced(p) => assigned[p] = IndexRange(p)
    /\ \A p \in 1..3 : \A q \in 1..3 :
          (p # q /\ Sliced(p) /\ Sliced(q)) => assigned[p] \cap assigned[q] = {}
    /\ \A p \in 1..3 : Sliced(p) =>
          \A i \in Indices : i >= SplitTo(3) => i \notin assigned[p]

\* C2 as stated: for every data_split the three slices are the claimed
\* index ranges, pairwise disjoint, and no song from int(N*b3) on is in one.
C2_Original == SplitsAsClaimed

NonDecreasing == \A k \in 1..3 : data_split[k] <= data_split[k + 1]

\* C2: for non-decreasing boundaries the three slices are the claimed index
\* ranges, pairwise disjoint, and no song from int(N*b3) on is in a split.
C2_SplitsDisjoint == NonDecreasing => SplitsAsClaimed

C2_Witness ==
    /\ pc = "generated"
    /\ NonDecreasing
    /\ assigned[1] # {}
    /\ \E i \in Indices : \A p \in 1..3 : i \notin assigned[p]

\* ---- C3
FailedIn(fs) == {fs[k] : k \in {j \in 1..Len(fs) : At(song_folders, fs[j]) = "corrupt"}}

ExactlyOneFails == pc \in {"starmap", "sequential", "filter", "returned"}
                   /\ Cardinality(FailedIn(folders)) = 1

\* C3: with exactly one failing song among the N folders of a call, in
\* either dispatcher mode, all N tasks run, the dispatcher output holds
\* N-1 tables, the table built has rows of exactly the other N-1 songs,
\* and no exception is raised.
C3_FailureIsolation ==
    ExactlyOneFails =>
        /\ exception = "none"
        /\ pc = "filter" =>
              /\ \A k \in 1..Len(folders) : task[folders[k]] = "done"
              /\ Len(songs) = Len(folders)
              /\ Cardinality({k \in 1..Len(songs) : ~songs[k].none}) = Len(folders) - 1
        /\ pc = "returned" =>
              /\ Len(songs) = Len(folders) - 1
              /\ \A k \in 1..Len(songs) : ~songs[k].none
              /\ df.none <=> Len(folders) = 1
              /\ ~df.none =>
                    {df.rows[k].name : k \in 1..Len(df.rows)} = Range(folders) \ FailedIn(folders)

C3_Witness ==
    /\ ExactlyOneFails
    /\ use_multiprocessing
    /\ pc = "returned"
    /\ Len(folders) >= 2
    /\ ~df.none

\* ---- C4
Extracting == {i \in Indices : task[i] \in {"running", "done"}}

\* C4: without use_cache every cache entry of the call's songs has been
\* removed and rebuilt before any extraction of the call starts, and no
\* extraction runs during the rewrite; with use_cache no entry is touched.
C4_CacheBarrier ==
    /\ (pc \in {"starmap", "sequential"} /\ Extracting # {} /\ ~use_cache) =>
          /\ recalculated = Range(folders)
          /\ \A i \in Range(folders) : cache[i] = "rebuilt"
    /\ pc \in {"remove", "create"} => (Running = {} /\ Extracting = {})
    /\ use_cache => (\A i \in Indices : cache[i] = "cached") /\ pc \notin {"remove", "create"}

C4_Witness ==
    /\ ~use_cache
    /\ pc = "starmap"
    /\ Cardinality(Running) >= 2

\* ---- C5
\* C5: a call in which no song survives returns None; the split is skipped
\* with a warning and without a file, and the run goes on without crashing.
C5_EmptySplitSkipped ==
    /\ (pc = "returned" /\ FailedIn(folders) = Range(folders)) => (df.none /\ phase \in warned)
    /\ \A p \in skipped : p \in warned /\ ~pkl[p].exists
    /\ skipped # {} => exception # "FileNotFoundError"

\* ---- C6
\* C6: every persisted split table has been normalized exactly once, no
\* table is ever normalized twice, and load_datasets returns the persisted
\* tables as they are.
C6_NormalizedOnce ==
    /\ df.normalize_count <= 1
    /\ \A p \in 1..3 : pkl[p].exists =>
          (~pkl[p].table.none /\ pkl[p].table.normalize_count = 1)
    /\ pc = "loaded" =>
          \A p \in 1..3 : loaded[p] = pkl[p].table /\ loaded[p].normalize_count = 1

C6_Witness ==
    /\ pc = "loaded"
    /\ \A p \in 1..3 : loaded[p].normalize_count = 1

\* ---- C7
\* the contents of the train songs of a song list, in order
TrainSongs(list) ==
    LET idx == SliceIndices(Len(list), IntOfProduct(Len(list), data_split[1]),
                            IntOfProduct(Len(list), data_split[2]))
    IN  [k \in 1..Len(idx) |-> At(list, idx[k])]

\* the statistics of the snippets of the surviving songs of a list of contents
StatsOfContents(contents) ==
    FitStats(SnippetsOf(
        SelectSeq([k \in 1..Len(contents) |->
                      [none |-> contents[k] = "corrupt", name |-> k, kind |-> contents[k],
                       len |-> IF contents[k] = "corrupt" THEN 0 ELSE RowCount(contents[k])]],
                  LAMBDA x : ~x.none)))

\* C7: the statistics a run persists are those of its train songs alone:
\* every song list with the same train songs, whatever its val and test
\* songs, gives the same statistics; the fit is never invoked on val or test.
C7_StatsFromTrainOnly ==
    /\ fitted \subseteq {1}
    /\ stats_file.origin = "run" =>
          \A other \in SongLists :
              TrainSongs(other) = TrainSongs(song_folders) =>
                  stats_file = StatsOfContents(TrainSongs(other))

C7_Witness ==
    /\ stats_file.origin = "run"
    /\ pc = "generated"
    /\ 2 \in normalized
    /\ 3 \in normalized
    /\ \E i \in assigned[1] : \E j \in assigned[2] : At(song_folders, i) # At(song_folders, j)

\* ---- C10
\* C10 as stated: one write, by the coordinator with no extraction running,
\* and no worker-pool extraction starts after the write.
C10_Original ==
    /\ stats_writes <= 1
    /\ pc = "save_stats" => Running = {}
    /\ use_multiprocessing => started_after_stats = {}

\* C10: the statistics file is written at most once per run, in the train
\* phase, by the coordinator after the extraction of the train split has
\* completed and while no extraction runs; the extraction that starts after
\* the write is that of the val and test splits.
C10_SingleWriter ==
    /\ stats_writes <= 1
    /\ stats_writes = 1 <=> 1 \in fitted
    /\ pc = "save_stats" =>
          /\ phase = 1
          /\ Running = {}
          /\ \A i \in assigned[1] : task[i] = "done"
    /\ started_after_stats \subseteq (assigned[2] \cup assigned[3])

C10_Witness ==
    /\ use_multiprocessing
    /\ stats_writes = 1
    /\ pc = "starmap"
    /\ Running # {}
    /\ Running \subseteq started_after_stats

\* ---- C9
\* a name that is info.dat or info.json up to case
IsMarkerName(name) == name \in {"info.dat", "INFO.DAT", "info.json", "Info.json"}

SongRoots == {d \in DOMAIN tree : \E name \in tree[d].files : IsMarkerName(name)}

\* C9: create_song_list returns exactly the folders that directly hold a
\* file named info.dat or info.json up to case, each exactly once.
C9_Discovery ==
    walk_pc = "returned" =>
        /\ Range(found) = SongRoots
        /\ Len(found) = Cardinality(SongRoots)

C9_Witness ==
    /\ walk_pc = "returned"
    /\ \E d \in DOMAIN tree : \E e \in DOMAIN tree :
          /\ tree[e].parent = d
          /\ d \notin Range(found)
          /\ e \in Range(found)
          /\ "INFO.DAT" \in tree[e].files
    /\ \E d \in DOMAIN tree : tree[d].files = {"song.ogg"} /\ d \notin Range(found)

\* ---- C8
\* number of rows of the (name, difficulty) group of a key
GroupLength(key) == Cardinality({k \in 1..Len(frame) : frame[k] = key})

\* position of table row r inside its (name, difficulty) group
RankInGroup(r) == Cardinality({q \in 0..(r - 1) : At(frame, q) = At(frame, r)})

SnippetsOfKey(key) == {sn \in snippets : At(frame, sn.rows[1]) = key}

\* C8: a group of L rows yields floor((L - W) / S) + 1 snippets if L >= W
\* and none otherwise; every snippet is W consecutive rows of one group,
\* the starts are 0, S, 2S, ... while start + W <= L, and nothing is padded.
C8_SnippetWindows ==
    snip_pc = "snippets" =>
        /\ \A key \in GroupKeys :
              LET L == GroupLength(key)
              IN  /\ Cardinality(SnippetsOfKey(key)) =
                        IF L >= window THEN ((L - window) \div skip) + 1 ELSE 0
                  /\ {sn.start : sn \in SnippetsOfKey(key)} =
                        {st \in 0..L : st % skip = 0 /\ st + window <= L}
        /\ \A sn \in snippets :
              /\ Len(sn.rows) = window
              /\ \A k \in 1..window :
                    /\ At(frame, sn.rows[k]) = At(frame, sn.rows[1])
                    /\ RankInGroup(sn.rows[k]) = sn.start + k - 1
        /\ generate_snippets(120, 50, 25) = <<0, 25, 50>>

C8_Witness ==
    /\ snip_pc = "snippets"
    /\ \E key \in GroupKeys :
          /\ Cardinality(SnippetsOfKey(key)) >= 2
          /\ (GroupLength(key) - window) % skip # 0
    /\ \E key \in GroupKeys : GroupLength(key) > 0 /\ GroupLength(key) < window

\* ============================================================ load_datasets
\* a split table left in the storage folder by a run of generate_datasets
StoredTable == [NoneTable EXCEPT !.none = FALSE, !.normalize_count = 1]

\* errors other than a missing file that reading a split file can raise
ReadErrors == {"PermissionError", "EOFError"}

\* load_datasets called on a storage folder in any condition: each split
\* file is missing, readable, or present and raising an error when read
InitLoad ==
    /\ song_folders = <<>>
    /\ data_split = <<0, 80, 90, 99>>
    /\ use_cache = TRUE
    /\ use_multiprocessing = FALSE
    /\ stats_file = NoStats
    /\ pkl \in [1..3 -> {NoFile, [exists |-> TRUE, table |-> StoredTable]}]
    /\ io_error \in [1..3 -> {"none"} \cup ReadErrors]
    /\ \A p \in 1..3 : io_error[p] # "none" => pkl[p].exists
    /\ phase = 4
    /\ pc = "generated"
    /\ folders = <<>>
    /\ pos = 0
    /\ cache = <<>>
    /\ recalculated = {}
    /\ task = <<>>
    /\ songs = <<>>
    /\ df = NoneTable
    /\ exception = "none"
    /\ loaded = <<>>
    /\ assigned = [p \in 1..3 |-> {}]
    /\ fitted = {}
    /\ normalized = {}
    /\ skipped = {}
    /\ warned = {}
    /\ stats_writes = 0
    /\ started_after_stats = {}
    /\ action_word_model = NoModel
    /\ post_warned = {}
    /\ WalkIdle
    /\ SnipIdle

NextLoad == LoadDatasets

SpecLoad == InitLoad /\ [][NextLoad]_vars

\* ---- C11
LoadReturned == pc \in {"loaded", "raised"}

Readable(p) == pkl[p].exists /\ io_error[p] = "none"

\* C11 as stated: the three tables are returned only when all three files
\* exist; when any file is missing no table is returned and the error is the
\* dataset-not-found error; any other error is one of the read errors, as it
\* was raised.
C11_Original ==
    LoadReturned =>
        /\ loaded # <<>> => \A p \in 1..3 : pkl[p].exists
        /\ (\E p \in 1..3 : ~pkl[p].exists) =>
              (loaded = <<>> /\ exception = DatasetNotFound)
        /\ exception \notin {"none", DatasetNotFound} =>
              \E p \in 1..3 : exception = io_error[p]

\* C11: the three tables are returned only when all three files exist and
\* can be read; otherwise no table is returned, and the first file in the
\* order train, val, test that cannot be read decides the error: the
\* dataset-not-found error if it is missing, its own error unchanged if not.
C11_LoadDatasets ==
    LoadReturned =>
        /\ loaded # <<>> =>
              /\ \A p \in 1..3 : Readable(p)
              /\ Len(loaded) = 3
              /\ \A p \in 1..3 : loaded[p] = pkl[p].table
              /\ exception = "none"
        /\ \A p \in 1..3 :
              ((\A q \in 1..(p - 1) : Readable(q)) /\ ~pkl[p].exists) =>
                  (loaded = <<>> /\ exception = DatasetNotFound)
        /\ \A p \in 1..3 :
              ((\A q \in 1..(p - 1) : Readable(q)) /\ io_error[p] # "none") =>
                  (loaded = <<>> /\ exception = io_error[p])

C11_Witness ==
    /\ pc = "raised"
    /\ exception = DatasetNotFound
    /\ Readable(1)
    /\ ~pkl[2].exists
    /\ io_error[3] # "none"

\* ---- C12
\* a table returned by songs2dataset is at hand
TableBuilt == pc \in {"returned", "save_stats", "normalize", "pickle"} /\ ~df.none

RowWords == UNION {SongWords(df.rows[k].kind) : k \in 1..Len(df.rows)}

\* C12: without a word model every row gets word_vec 0 and word_id 0, the
\* warning is logged, nothing is raised and the table is built with the lag
\* columns; with a model every word outside the mapping gets the UNK id 1,
\* every other word its id from 2 on, and nothing is raised.
C12_WordModel ==
    TableBuilt =>
        /\ DOMAIN df.word_id = RowWords
        /\ DOMAIN df.word_vec = RowWords
        /\ LagColumns \subseteq df.columns
        /\ pc = "returned" => exception = "none"
        /\ ~action_word_model.exists =>
              /\ \A w \in RowWords : df.word_id[w] = 0 /\ df.word_vec[w].zero
              /\ phase \in post_warned
        /\ action_word_model.exists =>
              /\ \A w \in RowWords :
                    /\ w \notin Range(action_word_model.vocab) => df.word_id[w] = 1
                    /\ w \in Range(action_word_model.vocab) => df.word_id[w] >= 2
                    /\ ~df.word_vec[w].zero
              /\ phase \notin post_warned
    /\ \A p \in 1..3 : pkl[p].exists =>
          (~action_word_model.exists => \A w \in DOMAIN pkl[p].table.word_id :
                                            pkl[p].table.word_id[w] = 0)

C12_Witness ==
    /\ ~action_word_model.exists
    /\ pkl[1].exists
    /\ pkl[1].table.word_id # <<>>
    /\ 1 \in post_warned
    /\ LagColumns \subseteq pkl[1].table.columns

\* a word outside the vocabulary was given the UNK id
C12_UnkReached ==
    /\ action_word_model.exists
    /\ TableBuilt
    /\ \E w \in RowWords : w \notin Range(action_word_model.vocab) /\ df.word_id[w] = 1

====
